---------------------------- MODULE Spec2Model ----------------------------
(***************************************************************************)
(* Model of the blender-gui plugins: the twist deformer session of         *)
(* plugins/mesh_twist.py and the mesh builders of plugins/mesh_*.py.       *)
(*                                                                         *)
(* Numbers.  The plugins compute in floating point.  The model computes in *)
(* fixed point: a coordinate or a radius is an integer number of 1/Scale   *)
(* units, an angle is a rational number of degrees that is cut to a whole  *)
(* degree where a sine or cosine is taken of it, and sine and cosine are   *)
(* read from a table of the whole degrees.  Multiples of 90 degrees are    *)
(* exact.                                                                  *)
(***************************************************************************)
EXTENDS Integers, Sequences, FiniteSets, TLC

VARIABLES
    \* ---- the host scene and the twist session (plugins/mesh_twist.py)
    verts,          \* mesh object -> sequence of its vertex positions (v.co)
    vertex_list,    \* the baseline captured by get_selected
    mesh,           \* "None", "Empty" (the [] that apply stores) or the held mesh object
    bbox,           \* min_x, max_x, min_y, max_y, min_z, max_z ("None" before acquisition)
    StartFrom, EndAt, Axis, Angle, LiveUpdate,   \* the widgets' values
    Info,           \* the text of the Info widget
    applied,        \* number of Apply clicks that released a mesh
    raised,         \* "none", or the exception that ended the script
    \* ---- the builders (plugins/mesh_cylinder.py ... mesh_tube.py)
    call,           \* the builder call: its name and arguments
    pc,             \* "idle" (no call), "ready" (before the call), "done" (after it)
    poly,           \* the raw mesh the call built: verts and faces
    put,            \* TRUE when the call handed poly to NMesh.PutRaw
    exc,            \* "none", or the exception the call ended with
    \* ---- the toolkit (gui.py)
    events_lookup,  \* Interface.__events_lookup: event -> chain of handlers
    registered,     \* "no" before Interface.run, then "running", "exited" after exit
    called,         \* the handlers the last event called, in the order of the calls
    number,         \* a Number widget: its class, value, min and max
    select,         \* a MultipleSelect widget: its class, values and selected index
    cb,             \* the argument of the widget's last callback call (<<>>: no call yet)
    gui_exc         \* "none", or the exception an assignment to a widget ended with

twistVars == <<verts, vertex_list, mesh, bbox, StartFrom, EndAt, Axis, Angle,
               LiveUpdate, Info, applied, raised>>
buildVars == <<call, pc, poly, put, exc>>
interfaceVars == <<events_lookup, registered, called>>
widgetVars == <<number, select, cb, gui_exc>>
guiVars == <<interfaceVars, widgetVars>>
vars == <<twistVars, buildVars, guiVars>>

(***************************************************************************)
(* Bounds of the model.                                                    *)
(***************************************************************************)
MaxCoord == 1        \* the scene's meshes are lattices of 0..MaxCoord steps a side
MaxAngleSteps == 1   \* the Angle slider takes 0, 90, ..., 90*MaxAngleSteps degrees
MaxApply == 1        \* Apply clicks that release a mesh, per run

(***************************************************************************)
(* Fixed-point numbers and trigonometry.                                   *)
(***************************************************************************)
Scale == 2520 * 4

SinTab == <<
    0, 176, 352, 528, 703, 879, 1054, 1228, 1403, 1577,
    1750, 1923, 2096, 2268, 2439, 2609, 2778, 2947, 3115, 3282,
    3448, 3612, 3776, 3939, 4100, 4260, 4419, 4576, 4732, 4887,
    5040, 5192, 5342, 5490, 5637, 5782, 5925, 6066, 6206, 6344,
    6479, 6613, 6745, 6875, 7002, 7128, 7251, 7372, 7491, 7607,
    7722, 7834, 7943, 8050, 8155, 8257, 8357, 8454, 8548, 8640,
    8730, 8816, 8900, 8981, 9060, 9136, 9209, 9279, 9346, 9410,
    9472, 9531, 9587, 9640, 9690, 9737, 9781, 9822, 9860, 9895,
    9927, 9956, 9982, 10005, 10025, 10042, 10055, 10066, 10074, 10078,
    10080 >>

\* sin of a whole number of degrees, times Scale
SinDeg(a) ==
    LET m == a % 360
    IN  IF m <= 90 THEN SinTab[m + 1]
        ELSE IF m <= 180 THEN SinTab[180 - m + 1]
        ELSE IF m <= 270 THEN 0 - SinTab[m - 180 + 1]
        ELSE 0 - SinTab[360 - m + 1]

CosDeg(a) == SinDeg(a + 90)

\* sin and cos of the angle num/den degrees (den > 0), times Scale
sin(num, den) == SinDeg(num \div den)
cos(num, den) == CosDeg(num \div den)

\* a product of two fixed-point numbers
Mul(a, b) == (a * b) \div Scale

Min2(a, b) == IF a <= b THEN a ELSE b
Max2(a, b) == IF a >= b THEN a ELSE b

RECURSIVE SeqMin(_), SeqMax(_)
SeqMin(s) == IF Len(s) = 1 THEN s[1] ELSE Min2(s[1], SeqMin(Tail(s)))
SeqMax(s) == IF Len(s) = 1 THEN s[1] ELSE Max2(s[1], SeqMax(Tail(s)))


(***************************************************************************)
(* The host scene of the twist plugin: two mesh objects and one object     *)
(* that is no mesh.  A mesh is a lattice of points; "Edge" has an extent   *)
(* along x only.                                                           *)
(***************************************************************************)
MeshObjects == {"Box", "Edge"}
Objects == MeshObjects \cup {"Lamp"}

Lattice(dx, dy, dz) ==
    [i \in 1..((dx + 1) * (dy + 1) * (dz + 1)) |->
        << (1 + ((i - 1) % (dx + 1))) * Scale,
           (1 + (((i - 1) \div (dx + 1)) % (dy + 1))) * Scale,
           (1 + ((i - 1) \div ((dx + 1) * (dy + 1)))) * Scale >>]

InitialVerts ==
    [o \in MeshObjects |->
        IF o = "Box" THEN Lattice(MaxCoord, MaxCoord, MaxCoord)
                     ELSE Lattice(MaxCoord, 0, 0)]

\* Blender.Object.GetSelected(): the selected objects, in some order
Selections ==
    {<<>>, <<"Lamp">>, <<"Box">>, <<"Edge">>, <<"Lamp", "Box">>, <<"Edge", "Box">>}

\* object.getBoundBox() and the six min/max of get_selected
getBoundBox(vs) ==
    [min_x |-> SeqMin([i \in 1..Len(vs) |-> vs[i][1]]),
     max_x |-> SeqMax([i \in 1..Len(vs) |-> vs[i][1]]),
     min_y |-> SeqMin([i \in 1..Len(vs) |-> vs[i][2]]),
     max_y |-> SeqMax([i \in 1..Len(vs) |-> vs[i][2]]),
     min_z |-> SeqMin([i \in 1..Len(vs) |-> vs[i][3]]),
     max_z |-> SeqMax([i \in 1..Len(vs) |-> vs[i][3]])]

NoBox ==
    [min_x |-> "None", max_x |-> "None", min_y |-> "None",
     max_y |-> "None", min_z |-> "None", max_z |-> "None"]

AXIS_X == 1
AXIS_Y == 2
AXIS_Z == 3

\* the values the sliders and the radio buttons can be set to
Percents == {0, 50, 100}
Angles == {90 * k : k \in 0..MaxAngleSteps}
PercentInputs == Percents \cup {0 - 50, 150}
AngleInputs == Angles \cup {0 - 90}

\* Number._setvalue: the value is clamped to [min, max]
Clamp(value, lo, hi) == Max2(Min2(value, hi), lo)

\* "if mesh:" -- None and [] are false
Held == mesh \in MeshObjects

(***************************************************************************)
(* twist_mesh and its three rotations.                                     *)
(***************************************************************************)
rot_x(v, num, den) ==
    LET c == cos(num, den)
        s == sin(num, den)
    IN  << v[1], Mul(v[2], c) - Mul(v[3], s), Mul(v[2], s) + Mul(v[3], c) >>

rot_y(v, num, den) ==
    LET c == cos(num, den)
        s == sin(num, den)
    IN  << Mul(v[1], c) - Mul(v[3], s), v[2], Mul(v[1], s) + Mul(v[3], c) >>

rot_z(v, num, den) ==
    LET c == cos(num, den)
        s == sin(num, den)
    IN  << Mul(v[1], c) - Mul(v[2], s), Mul(v[1], s) + Mul(v[2], s), v[3] >>

\* the axis fraction t = (coordinate - min)/d of a baseline vertex lies in
\* [lo/100, hi/100]; d > 0
InRange(coord, mn, d, lo, hi) ==
    /\ lo * d <= 100 * (coord - mn)
    /\ 100 * (coord - mn) <= hi * d

\* twist_mesh(vertex_list, mesh, Axis, Angle, StartFrom, EndAt) writing into
\* the vertices cur of the mesh: the vertices afterwards, and the exception
\* that ended the loop ("none" when it ran to its end).
twist_mesh(vl, cur, axis_name, angle, start, end) ==
    LET ax == IF axis_name = "x" THEN 1 ELSE IF axis_name = "y" THEN 2 ELSE 3
        lo == Min2(start, end)
        hi == Max2(start, end)
        mn == IF ax = 1 THEN bbox.min_x ELSE IF ax = 2 THEN bbox.min_y ELSE bbox.min_z
        mx == IF ax = 1 THEN bbox.max_x ELSE IF ax = 2 THEN bbox.max_y ELSE bbox.max_z
        d  == mx - mn
        rd == hi - lo
        in(i) == InRange(vl[i][ax], mn, d, lo, hi)
        \* t = .../d divides by d; ang = .../rd divides by rd
        fails(i) == d = 0 \/ (in(i) /\ rd = 0)
        failing == {i \in 1..Len(cur) : fails(i)}
        stop == IF failing = {} THEN Len(cur) + 1
                ELSE CHOOSE i \in failing : \A j \in failing : i <= j
        num(i) == angle * (100 * (vl[i][ax] - mn) - lo * d)
        den == d * rd
        moved(i) ==
            IF in(i)
            THEN IF ax = 1 THEN rot_x(vl[i], num(i), den)
                 ELSE IF ax = 2 THEN rot_y(vl[i], num(i), den)
                 ELSE rot_z(vl[i], num(i), den)
            ELSE vl[i]
    IN  [verts |-> [i \in 1..Len(cur) |-> IF i < stop THEN moved(i) ELSE cur[i]],
         err   |-> IF failing = {} THEN "none" ELSE "ZeroDivisionError"]

(***************************************************************************)
(* The callbacks of the twist plugin.                                      *)
(***************************************************************************)
FirstMesh(sel) ==
    LET idx == {i \in 1..Len(sel) : sel[i] \in MeshObjects}
    IN  IF idx = {} THEN "None"
        ELSE sel[CHOOSE i \in idx : \A j \in idx : i <= j]

\* the dictionary axis of update()
axis ==
    [a \in {AXIS_X, AXIS_Y, AXIS_Z} |->
        IF a = AXIS_X THEN "x" ELSE IF a = AXIS_Y THEN "y" ELSE "z"]

\* update() without its "if mesh:": twist_mesh reads mesh.verts of None or []
update_unguarded(Axis_value, Angle_value, StartFrom_value, EndAt_value) ==
    IF Held
    THEN LET r == twist_mesh(vertex_list, verts[mesh], axis[Axis_value], Angle_value,
                             StartFrom_value, EndAt_value)
         IN  /\ verts' = [verts EXCEPT ![mesh] = r.verts]
             /\ raised' = r.err
    ELSE /\ verts' = verts
         /\ raised' = "AttributeError"

\* update(): its effect on the scene and the exception it ends with, the
\* four arguments being the values Axis.value, Angle.value, StartFrom.value
\* and EndAt.value that it reads
update(Axis_value, Angle_value, StartFrom_value, EndAt_value) ==
    IF Held
    THEN LET r == twist_mesh(vertex_list, verts[mesh], axis[Axis_value], Angle_value,
                             StartFrom_value, EndAt_value)
         IN  /\ verts' = [verts EXCEPT ![mesh] = r.verts]
             /\ raised' = r.err
    ELSE /\ verts' = verts
         /\ raised' = "none"

\* live_update without its test of LiveUpdate.state
live_update_always(Axis_value, Angle_value, StartFrom_value, EndAt_value) ==
    update(Axis_value, Angle_value, StartFrom_value, EndAt_value)

\* live_update(_)
live_update(Axis_value, Angle_value, StartFrom_value, EndAt_value) ==
    IF LiveUpdate THEN update(Axis_value, Angle_value, StartFrom_value, EndAt_value)
    ELSE verts' = verts /\ raised' = "none"

Running == raised = "none"

\* get_selected without its "if not mesh:": a held mesh is captured again
get_selected_again(sel) ==
    /\ Running
    /\ IF FirstMesh(sel) # "None"
       THEN /\ Info' = "selected"
            /\ mesh' = FirstMesh(sel)
            /\ vertex_list' = verts[FirstMesh(sel)]
            /\ bbox' = getBoundBox(verts[FirstMesh(sel)])
       ELSE /\ Info' = "No mesh selected"
            /\ UNCHANGED <<mesh, vertex_list, bbox>>
    /\ UNCHANGED <<verts, StartFrom, EndAt, Axis, Angle, LiveUpdate, applied, raised>>
    /\ UNCHANGED <<buildVars, guiVars>>

\* the Get mesh button
get_selected(sel) ==
    /\ Running
    /\ IF ~Held
       THEN IF FirstMesh(sel) # "None"
            THEN /\ Info' = "selected"
                 /\ mesh' = FirstMesh(sel)
                 /\ vertex_list' = verts[FirstMesh(sel)]
                 /\ bbox' = getBoundBox(verts[FirstMesh(sel)])
            ELSE /\ Info' = "No mesh selected"
                 /\ UNCHANGED <<mesh, vertex_list, bbox>>
       ELSE UNCHANGED <<Info, mesh, vertex_list, bbox>>
    /\ UNCHANGED <<verts, StartFrom, EndAt, Axis, Angle, LiveUpdate, applied, raised>>
    /\ UNCHANGED <<buildVars, guiVars>>

\* cancel without the loop that writes the baseline back
cancel_keeping ==
    /\ Running
    /\ verts' = verts
    /\ vertex_list' = <<>>
    /\ mesh' = "None"
    /\ Info' = "No mesh selected"
    /\ UNCHANGED <<bbox, StartFrom, EndAt, Axis, Angle, LiveUpdate, applied, raised>>
    /\ UNCHANGED <<buildVars, guiVars>>

\* the Cancel button
cancel ==
    /\ Running
    /\ verts' = IF Held THEN [verts EXCEPT ![mesh] = vertex_list] ELSE verts
    /\ vertex_list' = <<>>
    /\ mesh' = "None"
    /\ Info' = "No mesh selected"
    /\ UNCHANGED <<bbox, StartFrom, EndAt, Axis, Angle, LiveUpdate, applied, raised>>
    /\ UNCHANGED <<buildVars, guiVars>>

\* the Update button
Update ==
    /\ Running
    /\ update(Axis, Angle, StartFrom, EndAt)
    /\ UNCHANGED <<vertex_list, mesh, bbox, StartFrom, EndAt, Axis, Angle,
                   LiveUpdate, Info, applied>>
    /\ UNCHANGED <<buildVars, guiVars>>

\* the Apply button
apply ==
    /\ Running
    /\ Held => applied < MaxApply
    /\ update(Axis, Angle, StartFrom, EndAt)
    /\ IF Held /\ raised' = "none"
       THEN /\ vertex_list' = <<>>
            /\ mesh' = "Empty"
            /\ Info' = "No mesh selected"
            /\ applied' = applied + 1
       ELSE UNCHANGED <<vertex_list, mesh, Info, applied>>
    /\ UNCHANGED <<bbox, StartFrom, EndAt, Axis, Angle, LiveUpdate>>
    /\ UNCHANGED <<buildVars, guiVars>>

\* Number.event of the Start slider, then its callback live_update
StartFromEvent(val) ==
    /\ Running
    /\ StartFrom' = Clamp(val, 0, 100)
    /\ EndAt' = EndAt /\ Axis' = Axis /\ Angle' = Angle
    /\ live_update(Axis', Angle', StartFrom', EndAt')
    /\ UNCHANGED <<vertex_list, mesh, bbox, LiveUpdate, Info, applied>>
    /\ UNCHANGED <<buildVars, guiVars>>


\* Number.event of the End slider, then its callback live_update
EndAtEvent(val) ==
    /\ Running
    /\ EndAt' = Clamp(val, 0, 100)
    /\ StartFrom' = StartFrom /\ Axis' = Axis /\ Angle' = Angle
    /\ live_update(Axis', Angle', StartFrom', EndAt')
    /\ UNCHANGED <<vertex_list, mesh, bbox, LiveUpdate, Info, applied>>
    /\ UNCHANGED <<buildVars, guiVars>>

\* Number.event of the Angle slider, then its callback live_update
AngleEvent(val) ==
    /\ Running
    /\ Angle' = Clamp(val, 0, 360 * 100)
    /\ StartFrom' = StartFrom /\ EndAt' = EndAt /\ Axis' = Axis
    /\ live_update(Axis', Angle', StartFrom', EndAt')
    /\ UNCHANGED <<vertex_list, mesh, bbox, LiveUpdate, Info, applied>>
    /\ UNCHANGED <<buildVars, guiVars>>

\* RadioButtons.event(index) of the Axis buttons, then live_update(index)
AxisEvent(index) ==
    /\ Running
    /\ Axis' = <<AXIS_X, AXIS_Y, AXIS_Z>>[index + 1]
    /\ StartFrom' = StartFrom /\ EndAt' = EndAt /\ Angle' = Angle
    /\ live_update(Axis', Angle', StartFrom', EndAt')
    /\ UNCHANGED <<vertex_list, mesh, bbox, LiveUpdate, Info, applied>>
    /\ UNCHANGED <<buildVars, guiVars>>

\* Toggle.event of the Live update toggle (it has no callback)
LiveUpdateEvent ==
    /\ Running
    /\ LiveUpdate' = ~LiveUpdate
    /\ UNCHANGED <<verts, vertex_list, mesh, bbox, StartFrom, EndAt, Axis, Angle,
                   Info, applied, raised>>
    /\ UNCHANGED <<buildVars, guiVars>>

\* no Interface of its own and no widget is followed
NoWidget == [class |-> "none"]
InterfaceIdle ==
    /\ events_lookup = << >>
    /\ registered = "no"
    /\ called = << >>
WidgetsIdle ==
    /\ number = NoWidget
    /\ select = NoWidget
    /\ cb = << >>
    /\ gui_exc = "none"
GuiIdle == InterfaceIdle /\ WidgetsIdle

TwistInit ==
    /\ verts = InitialVerts
    /\ vertex_list = <<>>
    /\ mesh = "None"
    /\ bbox = NoBox
    /\ StartFrom = 0
    /\ EndAt = 100
    /\ Axis = AXIS_Y
    /\ Angle = 0
    /\ LiveUpdate = FALSE
    /\ Info = "No mesh selected"
    /\ applied = 0
    /\ raised = "none"

\* no builder is called in the twist plugin
BuildIdle ==
    /\ call = [name |-> "none"]
    /\ pc = "idle"
    /\ poly = [verts |-> <<>>, faces |-> <<>>]
    /\ put = FALSE
    /\ exc = "none"

Init == TwistInit /\ BuildIdle /\ GuiIdle

TwistNext ==
    \/ \E sel \in Selections : get_selected(sel)
    \/ cancel
    \/ Update
    \/ apply
    \/ \E val \in PercentInputs : StartFromEvent(val)
    \/ \E val \in PercentInputs : EndAtEvent(val)
    \/ \E val \in AngleInputs : AngleEvent(val)
    \/ \E index \in 0..2 : AxisEvent(index)
    \/ LiveUpdateEvent

\* the twist plugin: the scene, the widgets and the callbacks
SpecTwist == Init /\ [][TwistNext]_vars


(***************************************************************************)
(* The builders.  A builder runs a list of steps on an empty raw mesh:     *)
(* "verts" appends vertices, "faces" appends faces whose corners are given *)
(* by Python list indices into poly.verts (a negative index counts from    *)
(* the end; an index out of range raises IndexError), "raise" is an        *)
(* exception of the arithmetic.  The last statement of every builder hands *)
(* the mesh to NMesh.PutRaw.                                               *)
(***************************************************************************)
MaxSegments == 4     \* segment, U, V, major and minor counts are 0, 2..MaxSegments
MaxDivisions == 2    \* cap, wall and sub-division counts are 0..MaxDivisions

SegmentCounts == {0} \cup 2..MaxSegments
DivisionCounts == 0..MaxDivisions
Radii == {0, Scale, 2 * Scale}
InnerRadii == {0, Scale}           \* inner and minor radii
OuterRadii == {0, 2 * Scale}       \* outer and major radii
Heights == {3 * Scale}
MajorAngles == {0, 90, 360}
MinorAngles == {0, 180, 360}
Clips == {0, 50, 100}

VertsStep(vs) == [kind |-> "verts", verts |-> vs]
FacesStep(fs) == [kind |-> "faces", faces |-> fs]
RaiseStep(e) == [kind |-> "raise", exc |-> e]

\* poly.verts[i] of a list of n vertices
ValidIndex(i, n) == 0 - n <= i /\ i < n
PyIndex(i, n) == IF i < 0 THEN n + i ELSE i

RECURSIVE Flatten(_)
Flatten(ss) == IF ss = <<>> THEN <<>> ELSE Head(ss) \o Flatten(Tail(ss))

\* the faces of a "faces" step that are appended before the first bad index
GoodPrefix(fs, n) ==
    LET bad == {k \in 1..Len(fs) : \E c \in 1..Len(fs[k].v) : ~ValidIndex(fs[k].v[c], n)}
        stop == IF bad = {} THEN Len(fs) + 1
                ELSE CHOOSE k \in bad : \A l \in bad : k <= l
    IN  [faces |-> [k \in 1..(stop - 1) |->
                        [v |-> [c \in 1..Len(fs[k].v) |-> PyIndex(fs[k].v[c], n)],
                         smooth |-> fs[k].smooth]],
         exc |-> IF bad = {} THEN "none" ELSE "IndexError"]

RECURSIVE Run(_, _)
Run(steps, acc) ==
    IF steps = <<>> THEN [acc EXCEPT !.put = TRUE]
    ELSE LET st == Head(steps)
         IN  IF st.kind = "raise" THEN [acc EXCEPT !.exc = st.exc]
             ELSE IF st.kind = "verts"
             THEN Run(Tail(steps), [acc EXCEPT !.verts = acc.verts \o st.verts])
             ELSE LET g == GoodPrefix(st.faces, Len(acc.verts))
                  IN  IF g.exc # "none"
                      THEN [acc EXCEPT !.faces = acc.faces \o g.faces, !.exc = g.exc]
                      ELSE Run(Tail(steps), [acc EXCEPT !.faces = acc.faces \o g.faces])

\* NMesh.GetRaw()
GetRaw == [verts |-> <<>>, faces |-> <<>>, exc |-> "none", put |-> FALSE]

Face(corners, smooth) == [v |-> corners, smooth |-> smooth]

\* MakeVertexRing of Cylinder, Sphere and Sphere2: n vertices on the circle of
\* radius r at height z
MakeVertexRing(n, r, z) ==
    [i \in 1..n |-> << Mul(r, cos(360 * (i - 1), n)), Mul(r, sin(360 * (i - 1), n)), z >>]

\* the quads with ring i+1 never taken modulo the number of rings
SkinFacesNoSeam(strips, n, wrap, smooth) ==
    [k \in 1..(strips * n) |->
        LET i == (k - 1) \div n
            j == (k - 1) % n
            ring1_num == n * i
            ring2_num == n * (i + 1)
        IN  Face(<< ring1_num + j, ring1_num + ((j + 1) % n),
                    ring2_num + ((j + 1) % n), ring2_num + j >>, smooth)]

\* the quads that stitch ring i to ring i+1 for i in xrange(strips), the
\* rings having n vertices each; ring i+1 is taken modulo wrap when wrap > 0
SkinFaces(strips, n, wrap, smooth) ==
    [k \in 1..(strips * n) |->
        LET i == (k - 1) \div n
            j == (k - 1) % n
            ring1_num == n * i
            ring2_num == IF wrap > 0 THEN n * ((i + 1) % wrap) ELSE n * (i + 1)
        IN  Face(<< ring1_num + j, ring1_num + ((j + 1) % n),
                    ring2_num + ((j + 1) % n), ring2_num + j >>, smooth)]

(***************************************************************************)
(* plugins/mesh_cylinder.py                                                *)
(***************************************************************************)
\* tvc counted one strip short
CylinderTvcOneLess(Divisions, CapDivisions) == 2 * (CapDivisions - 1) + Divisions

\* tvc of Cylinder: the number of quad strips of the skin
CylinderTvc(Divisions, CapDivisions) == 2 * (CapDivisions - 1) + Divisions + 1

\* the cap fans with j1 = j + 1, not wrapped
CylinderCapsNoWrap(Segments, Smooth) ==
    [k \in 1..(2 * Segments) |->
        LET j0 == (k - 1) \div 2
            j1 == j0 + 1
        IN  IF k % 2 = 1
            THEN Face(<< 0 - 2, j0, j1 >>, Smooth)
            ELSE Face(<< 0 - 1, 0 - (j0 + 3), 0 - (j1 + 3) >>, Smooth)]

\* the cap fans of Cylinder: for each j a triangle of the bottom apex
\* (poly.verts[-2]) and a triangle of the top apex (poly.verts[-1])
CylinderCaps(Segments, Smooth) ==
    [k \in 1..(2 * Segments) |->
        LET j0 == (k - 1) \div 2
            j1 == (j0 + 1) % Segments
        IN  IF k % 2 = 1
            THEN Face(<< 0 - 2, j0, j1 >>, Smooth)
            ELSE Face(<< 0 - 1, 0 - (j0 + 3), 0 - (j1 + 3) >>, Smooth)]

Cylinder(Radius, Height, Segments, Divisions, CapDivisions, Smooth) ==
    IF CapDivisions = 0 THEN Run(<<RaiseStep("ZeroDivisionError")>>, GetRaw)
    ELSE
    LET dr == Radius \div CapDivisions
        bottom == Flatten([k \in 1..CapDivisions |-> MakeVertexRing(Segments, dr * k, 0)])
    IN  IF Divisions = 0
        THEN Run(<<VertsStep(bottom), RaiseStep("ZeroDivisionError")>>, GetRaw)
        ELSE
        LET dz == Height \div Divisions
            wall == Flatten([k \in 1..Divisions |->
                        MakeVertexRing(Segments, Radius, dz * (k - 1))])
            top == Flatten([k \in 1..CapDivisions |->
                        MakeVertexRing(Segments, Radius - dr * (k - 1), Height)])
            tvc == CylinderTvc(Divisions, CapDivisions)
            caps == CylinderCaps(Segments, Smooth)
        IN  Run(<< VertsStep(bottom \o wall \o top),
                   FacesStep(SkinFaces(tvc, Segments, 0, Smooth)),
                   VertsStep(<< <<0, 0, 0>>, <<0, 0, Height>> >>),
                   FacesStep(caps) >>, GetRaw)

(***************************************************************************)
(* plugins/mesh_disc.py                                                    *)
(***************************************************************************)
\* one ring too many: xrange(Subdivisions+2)
DiscRingsOneMore(Subdivisions) == Subdivisions + 2

\* the number of rings Disc emits: xrange(Subdivisions+1)
DiscRings(Subdivisions) == Subdivisions + 1

Disc(InnerRadius, OuterRadius, Segments, Subdivisions) ==
    IF Subdivisions = 0 \/ Segments = 0
    THEN Run(<<RaiseStep("ZeroDivisionError")>>, GetRaw)
    ELSE
    LET dr == (OuterRadius - InnerRadius) \div Subdivisions
        rings == Flatten([k \in 1..DiscRings(Subdivisions) |->
                    [i \in 1..Segments |->
                        << Mul(InnerRadius + dr * (k - 1), cos(360 * (i - 1), Segments)),
                           Mul(InnerRadius + dr * (k - 1), sin(360 * (i - 1), Segments)),
                           0 >>]])
    IN  Run(<< VertsStep(rings),
               FacesStep(SkinFaces(Subdivisions, Segments, 0, FALSE)) >>, GetRaw)

(***************************************************************************)
(* plugins/mesh_sphere.py                                                  *)
(***************************************************************************)
\* the latitude ring at angle num/den degrees from the north pole
LatitudeRing(Radius, UDivisions, num, den) ==
    MakeVertexRing(UDivisions, Mul(Radius, sin(num, den)), Mul(Radius, cos(num, den)))

\* the pole fans with the two rings exchanged
SpherePoleFansSwapped(UDivisions, Smooth) ==
    [k \in 1..(2 * UDivisions) |->
        LET i == (k - 1) \div 2
            j == (i + 1) % UDivisions
        IN  IF k % 2 = 1
            THEN Face(<< 0 - 1, i, j >>, Smooth)
            ELSE Face(<< 0 - 2, 0 - (i + 3), 0 - (j + 3) >>, Smooth)]

\* the pole fans of Sphere: for each k a triangle of poly.verts[-1] on the
\* last ring and a triangle of poly.verts[-2] on the first ring
SpherePoleFans(UDivisions, Smooth) ==
    [k \in 1..(2 * UDivisions) |->
        LET i == (k - 1) \div 2
            j == (i + 1) % UDivisions
        IN  IF k % 2 = 1
            THEN Face(<< 0 - 1, 0 - (i + 3), 0 - (j + 3) >>, Smooth)
            ELSE Face(<< 0 - 2, i, j >>, Smooth)]

Sphere(Radius, UDivisions, VDivisions, Smooth) ==
    IF VDivisions = 0 THEN Run(<<RaiseStep("ZeroDivisionError")>>, GetRaw)
    ELSE
    LET rings == Flatten([k \in 1..(VDivisions - 1) |->
                    LatitudeRing(Radius, UDivisions, 180 * k, VDivisions)])
        poles == SpherePoleFans(UDivisions, Smooth)
    IN  Run(<< VertsStep(rings),
               VertsStep(<< <<0, 0, Radius>>, <<0, 0, 0 - Radius>> >>),
               FacesStep(SkinFaces(VDivisions - 2, UDivisions, 0, Smooth)),
               FacesStep(poles) >>, GetRaw)

\* acos of the fixed-point number v in [-1, 1], in whole degrees: the first
\* degree whose cosine is not above v
acos(v) ==
    CHOOSE a \in 0..180 : CosDeg(a) <= v /\ (a = 0 \/ CosDeg(a - 1) > v)

\* rang with the clip measured from the other pole: norm_z = Clip/50 - 1
Sphere2RangFromSouth(Clip) ==
    LET norm_z == (Clip * Scale) \div 50 - Scale
    IN  acos(norm_z)

\* rang of Sphere2: the angle from the north pole to the rim, in degrees
Sphere2Rang(Clip) ==
    LET norm_z == Scale - (Clip * Scale) \div 50
    IN  acos(norm_z)

\* the simple cap with one triangle too many: xrange(UDivisions-1)
Sphere2SimpleCapOneMore(UDivisions, Smooth) ==
    [k \in 1..(UDivisions - 1) |-> Face(<< 0, k, k + 1 >>, Smooth)]

\* the simple cap of Sphere2: a fan of the rim ring about its vertex 0
Sphere2SimpleCap(UDivisions, Smooth) ==
    [k \in 1..(UDivisions - 2) |-> Face(<< 0, k, k + 1 >>, Smooth)]

Sphere2(Radius, UDivisions, VDivisions, Clip, CapBottom, CapSymmetrical, Smooth) ==
    LET rang == Sphere2Rang(Clip)
        min_z == Mul(Radius, CosDeg(rang))
    IN  IF VDivisions = 0 THEN Run(<<RaiseStep("ZeroDivisionError")>>, GetRaw)
        ELSE
        LET rings == Flatten([k \in 1..(VDivisions - 1) |->
                        LatitudeRing(Radius, UDivisions,
                                     rang * (VDivisions - (k - 1)), VDivisions)])
            top == [k \in 1..UDivisions |->
                        Face(<< 0 - 1, 0 - ((k - 1) + 2), 0 - ((k % UDivisions) + 2) >>, Smooth)]
            symmetrical == [k \in 1..UDivisions |->
                        Face(<< 0 - 1, k - 1, k % UDivisions >>, Smooth)]
            simple == Sphere2SimpleCap(UDivisions, Smooth)
            cap == IF ~CapBottom THEN <<>>
                   ELSE IF CapSymmetrical # 0
                   THEN << VertsStep(<< <<0, 0, min_z>> >>), FacesStep(symmetrical) >>
                   ELSE << FacesStep(simple) >>
        IN  Run(<< VertsStep(rings),
                   VertsStep(<< <<0, 0, Radius>> >>),
                   FacesStep(SkinFaces(VDivisions - 2, UDivisions, 0, Smooth)),
                   FacesStep(top) >> \o cap, GetRaw)

(***************************************************************************)
(* plugins/mesh_torus.py                                                   *)
(***************************************************************************)
\* a point turned about the z axis by num/den degrees
RotateZvert(v, num, den) ==
    LET c == cos(num, den)
        s == sin(num, den)
    IN  << Mul(c, v[1]) - Mul(s, v[2]), Mul(s, v[1]) + Mul(c, v[2]), v[3] >>

\* MakeVertexRing of Torus and Torus2: the cross-section, turned about z by
\* num/den degrees.  StartMinorAngle*2*pi/180 radians are 2*StartMinorAngle
\* degrees.
TorusRing(MajorRadius, MinorRadius, MinorDivisions, StartMinorAngle, num, den) ==
    [i \in 1..MinorDivisions |->
        LET pn == 360 * (i - 1) + 2 * StartMinorAngle * MinorDivisions
            x  == MajorRadius + Mul(MinorRadius, cos(pn, MinorDivisions))
            z  == Mul(MinorRadius, sin(pn, MinorDivisions))
        IN  RotateZvert(<<x, 0, z>>, num, den)]

\* one strip short: the last ring is not stitched to the first
TorusStripsOpen(MajorDivisions) == MajorDivisions - 1

\* the number of quad strips of Torus: xrange(MajorDivisions)
TorusStrips(MajorDivisions) == MajorDivisions

Torus(MajorRadius, MinorRadius, MajorDivisions, MinorDivisions, StartMinorAngle, Smooth) ==
    IF MajorDivisions = 0 THEN Run(<<RaiseStep("ZeroDivisionError")>>, GetRaw)
    ELSE
    LET rings == Flatten([k \in 1..MajorDivisions |->
                    TorusRing(MajorRadius, MinorRadius, MinorDivisions, StartMinorAngle,
                              360 * (k - 1), MajorDivisions)])
    IN  Run(<< VertsStep(rings),
               FacesStep(SkinFaces(TorusStrips(MajorDivisions), MinorDivisions,
                                   MajorDivisions, Smooth))
            >>, GetRaw)

\* the start cap as a fan without the first, flat triangle
Torus2CapStartProper(MinorDivisions, Smooth) ==
    [k \in 1..(MinorDivisions - 2) |-> Face(<< 0, k, k + 1 >>, Smooth)]

\* the start cap of Torus2: the triangles (0, i, i+1) for i in
\* xrange(MinorDivisions-1)
Torus2CapStart(MinorDivisions, Smooth) ==
    [k \in 1..(MinorDivisions - 1) |-> Face(<< 0, k - 1, k >>, Smooth)]

Torus2(MajorRadius, MinorRadius, MajorDivisions, MinorDivisions, StartMajorAngle, CapStart, EndMajorAngle, CapEnd, StartMinorAngle, Smooth) ==
    LET start == Min2(StartMajorAngle, EndMajorAngle)
        end   == Max2(StartMajorAngle, EndMajorAngle)
    IN  IF MajorDivisions = 0 THEN Run(<<RaiseStep("ZeroDivisionError")>>, GetRaw)
        ELSE
        LET rings == Flatten([k \in 1..(MajorDivisions + 1) |->
                        TorusRing(MajorRadius, MinorRadius, MinorDivisions, StartMinorAngle,
                                  start * MajorDivisions + (k - 1) * (end - start),
                                  MajorDivisions)])
            capstart == Torus2CapStart(MinorDivisions, Smooth)
            capend == [k \in 1..(MinorDivisions - 1) |->
                            Face(<< 0 - 1, 0 - k, 0 - (k + 1) >>, Smooth)]
        IN  Run(<< VertsStep(rings),
                   FacesStep(SkinFaces(MajorDivisions, MinorDivisions, 0, Smooth)) >>
                \o (IF CapStart THEN << FacesStep(capstart) >> ELSE <<>>)
                \o (IF CapEnd THEN << FacesStep(capend) >> ELSE <<>>), GetRaw)

(***************************************************************************)
(* plugins/mesh_tube.py                                                    *)
(***************************************************************************)
\* MakeVertexRectange: one section of the tube, in the xz half-plane
MakeVertexRectange(InnerRadius, OuterRadius, Height, InnerDivisions, OuterDivisions, CapDivisions) ==
    LET dzi == Height \div InnerDivisions
        dx  == (OuterRadius - InnerRadius) \div CapDivisions
        dzo == Height \div OuterDivisions
    IN  [i \in 1..InnerDivisions |-> << InnerRadius, 0, dzi * (i - 1) >>]
        \o [i \in 1..CapDivisions |-> << InnerRadius + dx * (i - 1), 0, Height >>]
        \o [i \in 1..OuterDivisions |-> << OuterRadius, 0, Height - dzo * (i - 1) >>]
        \o [i \in 1..CapDivisions |-> << OuterRadius - dx * (i - 1), 0, 0 >>]

\* vps with the cap divisions counted once
TubeVpsOneCap(CapDivisions, InnerDivisions, OuterDivisions) ==
    CapDivisions + InnerDivisions + OuterDivisions

\* vps of Tube: the number of vertices of a section
TubeVps(CapDivisions, InnerDivisions, OuterDivisions) ==
    2 * CapDivisions + InnerDivisions + OuterDivisions

Tube(InnerRadius, OuterRadius, Height, InnerDivisions, OuterDivisions, CapDivisions, Segments, Smooth, StartAngle, EndAngle, UseAngles) ==
    IF InnerDivisions = 0 \/ CapDivisions = 0 \/ OuterDivisions = 0 \/ Segments = 0
    THEN Run(<<RaiseStep("ZeroDivisionError")>>, GetRaw)
    ELSE
    LET vert == MakeVertexRectange(InnerRadius, OuterRadius, Height, InnerDivisions,
                                   OuterDivisions, CapDivisions)
        segments == IF UseAngles THEN Segments + 1 ELSE Segments
        \* the angle of section k, as a fraction of denominator Segments
        anum(k) == IF UseAngles
                   THEN StartAngle * Segments + (k - 1) * (EndAngle - StartAngle)
                   ELSE 360 * (k - 1)
        sections == Flatten([k \in 1..segments |->
                        [i \in 1..Len(vert) |-> RotateZvert(vert[i], anum(k), Segments)]])
        vps == TubeVps(CapDivisions, InnerDivisions, OuterDivisions)
        centre == << (InnerRadius + OuterRadius) \div 2, 0, Height \div 2 >>
        caps == [k \in 1..(2 * vps) |->
                    LET i0 == (k - 1) \div 2
                        i1 == (i0 + 1) % vps
                    IN  IF k % 2 = 1
                        THEN Face(<< 0 - 2, i0, i1 >>, Smooth)
                        ELSE Face(<< 0 - 1, 0 - (i0 + 3), 0 - (i1 + 3) >>, Smooth)]
    IN  Run(<< VertsStep(sections),
               FacesStep(SkinFaces(Segments, vps, segments, Smooth)) >>
            \o (IF UseAngles
                THEN << VertsStep(<< RotateZvert(centre, StartAngle, 1),
                                     RotateZvert(centre, EndAngle, 1) >>),
                        FacesStep(caps) >>
                ELSE <<>>), GetRaw)

\* the arguments the builders are called with
CylinderArgs ==
    [Radius : Radii, Height : Heights, Segments : SegmentCounts,
     Divisions : DivisionCounts, CapDivisions : DivisionCounts, Smooth : BOOLEAN]
DiscArgs ==
    [InnerRadius : InnerRadii, OuterRadius : OuterRadii, Segments : SegmentCounts,
     Subdivisions : DivisionCounts]

SphereArgs ==
    [Radius : Radii, UDivisions : SegmentCounts, VDivisions : SegmentCounts,
     Smooth : BOOLEAN]
Sphere2Args ==
    [Radius : Radii, UDivisions : SegmentCounts, VDivisions : SegmentCounts,
     Clip : Clips, CapBottom : BOOLEAN, CapSymmetrical : {0, 1}, Smooth : BOOLEAN]
TorusArgs ==
    [MajorRadius : OuterRadii, MinorRadius : InnerRadii, MajorDivisions : SegmentCounts,
     MinorDivisions : SegmentCounts, StartMinorAngle : MinorAngles, Smooth : BOOLEAN]
Torus2Args ==
    [MajorRadius : OuterRadii, MinorRadius : InnerRadii, MajorDivisions : SegmentCounts,
     MinorDivisions : SegmentCounts, StartMajorAngle : MajorAngles, CapStart : BOOLEAN,
     EndMajorAngle : MajorAngles, CapEnd : BOOLEAN, StartMinorAngle : MinorAngles,
     Smooth : BOOLEAN]
TubeArgs ==
    [InnerRadius : InnerRadii, OuterRadius : OuterRadii, Height : Heights,
     InnerDivisions : DivisionCounts, OuterDivisions : DivisionCounts,
     CapDivisions : DivisionCounts, Segments : SegmentCounts, Smooth : BOOLEAN,
     StartAngle : MajorAngles, EndAngle : MajorAngles, UseAngles : BOOLEAN]

BuilderCalls ==
    {[name |-> "Cylinder", args |-> a] : a \in CylinderArgs}
    \cup {[name |-> "Disc", args |-> a] : a \in DiscArgs}
    \cup {[name |-> "Sphere", args |-> a] : a \in SphereArgs}
    \cup {[name |-> "Sphere2", args |-> a] : a \in Sphere2Args}
    \cup {[name |-> "Torus", args |-> a] : a \in TorusArgs}
    \cup {[name |-> "Torus2", args |-> a] : a \in Torus2Args}
    \cup {[name |-> "Tube", args |-> a] : a \in TubeArgs}

\* the builder that call.name names, applied to call.args
Build(c) ==
    LET a == c.args
    IN  IF c.name = "Cylinder"
        THEN Cylinder(a.Radius, a.Height, a.Segments, a.Divisions, a.CapDivisions, a.Smooth)
        ELSE IF c.name = "Disc"
        THEN Disc(a.InnerRadius, a.OuterRadius, a.Segments, a.Subdivisions)
        ELSE IF c.name = "Sphere"
        THEN Sphere(a.Radius, a.UDivisions, a.VDivisions, a.Smooth)
        ELSE IF c.name = "Sphere2"
        THEN Sphere2(a.Radius, a.UDivisions, a.VDivisions, a.Clip, a.CapBottom,
                     a.CapSymmetrical, a.Smooth)
        ELSE IF c.name = "Torus"
        THEN Torus(a.MajorRadius, a.MinorRadius, a.MajorDivisions, a.MinorDivisions,
                   a.StartMinorAngle, a.Smooth)
        ELSE IF c.name = "Torus2"
        THEN Torus2(a.MajorRadius, a.MinorRadius, a.MajorDivisions, a.MinorDivisions,
                    a.StartMajorAngle, a.CapStart, a.EndMajorAngle, a.CapEnd,
                    a.StartMinorAngle, a.Smooth)
        ELSE Tube(a.InnerRadius, a.OuterRadius, a.Height, a.InnerDivisions,
                  a.OuterDivisions, a.CapDivisions, a.Segments, a.Smooth,
                  a.StartAngle, a.EndAngle, a.UseAngles)

\* a call of a builder: the mesh it built, whether the mesh reached
\* NMesh.PutRaw, and the exception it ended with
Create(name) ==
    /\ pc = "ready"
    /\ call.name = name
    /\ LET r == Build(call)
       IN  /\ poly' = [verts |-> r.verts, faces |-> r.faces]
           /\ put' = r.put
           /\ exc' = r.exc
    /\ pc' = "done"
    /\ UNCHANGED call
    /\ UNCHANGED <<twistVars, guiVars>>

CreateCylinder == Create("Cylinder")
CreateDisc == Create("Disc")
CreateSphere == Create("Sphere")
CreateSphere2 == Create("Sphere2")
CreateTorus == Create("Torus")
CreateTorus2 == Create("Torus2")
CreateTube == Create("Tube")

BuildInit ==
    /\ call \in BuilderCalls
    /\ pc = "ready"
    /\ poly = [verts |-> <<>>, faces |-> <<>>]
    /\ put = FALSE
    /\ exc = "none"

\* the twist session stays as it starts while a builder is called
InitBuild == TwistInit /\ BuildInit /\ GuiIdle

BuildNext ==
    \/ CreateCylinder
    \/ CreateDisc
    \/ CreateSphere
    \/ CreateSphere2
    \/ CreateTorus
    \/ CreateTorus2
    \/ CreateTube

\* the builders, each called once with arguments drawn from the sets above
SpecBuild == InitBuild /\ [][BuildNext]_vars

(***************************************************************************)
(* gui.py: the Interface's event chains.  The handlers are those of the    *)
(* documented example ex_EventHandler2.py and the handler quit that        *)
(* Interface.run binds to QKEY.  None of the events is a modifier key, so  *)
(* __events_process sets no modifier attribute.                            *)
(***************************************************************************)
Handlers == {"A1", "A2", "A3", "B"}
KeyEvents == {"AKEY", "BKEY"}
\* the event argument of bind: an event or a list of events
BindEvents == {<<"AKEY">>, <<"BKEY">>, <<"AKEY", "BKEY">>}

\* function is in the chain
InChain(chain, function) == \E i \in 1..Len(chain) : chain[i] = function

\* list.index(function), counted from 1; the function is in the chain
IndexOf(chain, function) ==
    CHOOSE i \in 1..Len(chain) :
        chain[i] = function /\ \A j \in 1..(i - 1) : chain[j] # function

\* list.remove(function) where the function is in the chain
Remove(chain, function) ==
    LET k == IndexOf(chain, function)
    IN  SubSeq(chain, 1, k - 1) \o SubSeq(chain, k + 1, Len(chain))

\* Interface.__bind_single
bind_single(lookup, function, event) ==
    IF event \in DOMAIN lookup
    THEN IF InChain(lookup[event], function)
         THEN lookup
         ELSE [lookup EXCEPT ![event] = <<function>> \o @]
    ELSE (event :> <<function>>) @@ lookup

\* Interface.bind(function, event) for a list of events
RECURSIVE bind(_, _, _)
bind(lookup, function, events) ==
    IF events = << >> THEN lookup
    ELSE bind(bind_single(lookup, function, Head(events)), function, Tail(events))

\* Interface.unbind(function): the dictionary afterwards
unbind(lookup, function) ==
    [e \in DOMAIN lookup |->
        IF InChain(lookup[e], function) THEN Remove(lookup[e], function) ELSE lookup[e]]

\* what a handler returns when it is called with the value pressed
Returns(handler, pressed) ==
    IF handler = "A3" /\ pressed THEN "break" ELSE "None"

\* a call handler(event, pressed): the Interface afterwards and the value
\* returned.  B binds A3 to AKEY and unbinds itself; quit calls exit.
Handle(handler, st, pressed) ==
    [lookup |-> IF handler = "B" /\ pressed
                THEN unbind(bind(st.lookup, "A3", <<"AKEY">>), "B")
                ELSE st.lookup,
     exited |-> st.exited \/ handler = "quit",
     result |-> Returns(handler, pressed)]

\* "for handler in chain": the list iterator reads chain[i] of the list as
\* it is when it gets there, and stops when i is past the end of the list
RECURSIVE Dispatch(_, _, _, _, _)
Dispatch(st, event, pressed, i, log) ==
    IF i > Len(st.lookup[event])
    THEN [lookup |-> st.lookup, exited |-> st.exited, called |-> log]
    ELSE LET handler == st.lookup[event][i]
             r == Handle(handler, st, pressed)
         IN  IF r.result # "None"
             THEN [lookup |-> r.lookup, exited |-> r.exited, called |-> Append(log, handler)]
             ELSE Dispatch(r, event, pressed, i + 1, Append(log, handler))

\* a call interface.bind(function, events) of the script
Bind(function, events) ==
    /\ registered # "exited"
    /\ events_lookup' = bind(events_lookup, function, events)
    /\ UNCHANGED <<registered, called>>
    /\ UNCHANGED <<twistVars, buildVars, widgetVars>>

\* a call interface.unbind(function) of the script
Unbind(function) ==
    /\ registered # "exited"
    /\ events_lookup' = unbind(events_lookup, function)
    /\ UNCHANGED <<registered, called>>
    /\ UNCHANGED <<twistVars, buildVars, widgetVars>>

\* Interface.run
run ==
    /\ registered = "no"
    /\ events_lookup' = bind(events_lookup, "quit", <<"QKEY">>)
    /\ registered' = "running"
    /\ UNCHANGED called
    /\ UNCHANGED <<twistVars, buildVars, widgetVars>>

\* Interface.__events_process(event, value)
events_process(event, pressed) ==
    /\ registered = "running"
    /\ IF event \in DOMAIN events_lookup
       THEN LET r == Dispatch([lookup |-> events_lookup, exited |-> FALSE],
                              event, pressed, 1, << >>)
            IN  /\ events_lookup' = r.lookup
                /\ called' = r.called
                /\ registered' = IF r.exited THEN "exited" ELSE "running"
       ELSE /\ called' = << >>
            /\ UNCHANGED <<events_lookup, registered>>
    /\ UNCHANGED <<twistVars, buildVars, widgetVars>>

InterfaceInit ==
    /\ events_lookup = << >>
    /\ registered = "no"
    /\ called = << >>

InitInterface == TwistInit /\ BuildIdle /\ InterfaceInit /\ WidgetsIdle

InterfaceNext ==
    \/ \E function \in Handlers : \E events \in BindEvents : Bind(function, events)
    \/ \E function \in Handlers : Unbind(function)
    \/ run
    \/ \E event \in KeyEvents \cup {"QKEY"} : \E pressed \in BOOLEAN :
            events_process(event, pressed)

\* an Interface, its script binding and unbinding handlers, and key events
SpecInterface == InitInterface /\ [][InterfaceNext]_vars

(***************************************************************************)
(* gui.py: the Number widgets.  A number is counted in halves, so that the *)
(* int() of IntNumber and IntSlider has something to cut off.              *)
(***************************************************************************)
MaxNumber == 2       \* arguments and inputs of a Number run from -1 to MaxNumber + 1

Halves == (0 - 2)..(2 * MaxNumber + 2)
Limits == {2 * k : k \in 0..MaxNumber}
NumberClasses == {"IntNumber", "FloatNumber", "IntSlider", "FloatSlider"}

\* the Python type of the value of a widget of the class
NumberType(class) == IF class \in {"IntNumber", "IntSlider"} THEN "int" ELSE "float"

\* int(x): the fraction is cut off, towards zero
int(x) == IF x >= 0 THEN 2 * (x \div 2) ELSE 0 - 2 * ((0 - x) \div 2)

\* the numbers of a Python type
NumbersOf(type) == IF type = "int" THEN {x \in Halves : int(x) = x} ELSE Halves

\* IntNumber(interface, name, value, min, max) and its three siblings, down
\* to Number.__init__
Number(class, value, min, max) ==
    LET conv(x) == IF NumberType(class) = "int" THEN int(x) ELSE x
    IN  [class |-> class,
         value |-> conv(value),
         min   |-> IF conv(min) <= conv(max) THEN conv(min) ELSE conv(max),
         max   |-> IF conv(min) <= conv(max) THEN conv(max) ELSE conv(min)]

\* Number._setvalue for a value of the widget's type
setvalue(w, value) == [w EXCEPT !.value = Clamp(value, w.min, w.max)]

\* Number.event: the value Blender holds is assigned, then the callback is
\* called with the widget's value
NumberEvent(val) ==
    /\ number # NoWidget
    /\ gui_exc = "none"
    /\ val \in NumbersOf(NumberType(number.class))
    /\ number' = setvalue(number, val)
    /\ cb' = << number'.value >>
    /\ UNCHANGED <<select, gui_exc>>
    /\ UNCHANGED <<twistVars, buildVars, interfaceVars>>

\* an assignment widget.value = val of the script, val of the given type
NumberAssign(type, val) ==
    /\ number # NoWidget
    /\ gui_exc = "none"
    /\ val \in NumbersOf(type)
    /\ IF type = NumberType(number.class)
       THEN number' = setvalue(number, val) /\ gui_exc' = "none"
       ELSE number' = number /\ gui_exc' = "TypeError"
    /\ UNCHANGED <<select, cb>>
    /\ UNCHANGED <<twistVars, buildVars, interfaceVars>>

(***************************************************************************)
(* gui.py: the MultipleSelect widgets.  The widget has a callback.         *)
(***************************************************************************)
\* an entry of options: a title, or a pair (title, value)
Title(title) == [title |-> title, pair |-> FALSE, value |-> 0]
Pair(title, value) == [title |-> title, pair |-> TRUE, value |-> value]

\* the options of the documented examples and of the twist plugin's Axis
OptionLists ==
    { << Title("X"), Title("Y"), Title("Z") >>,
      << Pair("X", AXIS_X), Pair("Y", AXIS_Y), Pair("Z", AXIS_Z) >>,
      << Pair("A", 100), Title("A1"), Pair("B", 200), Title("B0") >> }
Defaults == {0, AXIS_Y, 200, 7}
SelectClasses == {"RadioButtons", "MultipleToggle", "Menu"}

\* the loop of MultipleSelect.__init__ over options: __available_values
RECURSIVE ParseOptions(_, _)
ParseOptions(options, value) ==
    IF options = << >> THEN << >>
    ELSE LET item == Head(options)
             v == IF item.pair THEN item.value ELSE value + 1
         IN  << v >> \o ParseOptions(Tail(options), v)

\* MultipleSelect._setselected
setselected(w, idx) ==
    [w EXCEPT !.selected = IF 0 <= idx /\ idx < Len(w.available_values) THEN idx ELSE 0]

\* the setter of MultipleSelect.value
select_setvalue(w, value) ==
    [w EXCEPT !.selected = IF InChain(w.available_values, value)
                           THEN IndexOf(w.available_values, value) - 1
                           ELSE 0]

\* the getter of MultipleSelect.value
select_value(w) == w.available_values[w.selected + 1]

\* MultipleSelect.__init__ of a widget of the class
MultipleSelect(class, options, default) ==
    select_setvalue([class |-> class,
                     available_values |-> ParseOptions(options, 0 - 1),
                     selected |-> 0], default)

\* RadioButtons.event(index): the toggle of option index was clicked
RadioButtonsEvent(index) ==
    /\ select # NoWidget
    /\ select.class = "RadioButtons"
    /\ index \in 0..(Len(select.available_values) - 1)
    /\ select' = setselected(select, index)
    /\ cb' = << index >>
    /\ UNCHANGED <<number, gui_exc>>
    /\ UNCHANGED <<twistVars, buildVars, interfaceVars>>

\* MultipleToggle.event: the button was clicked
MultipleToggleEvent ==
    /\ select # NoWidget
    /\ select.class = "MultipleToggle"
    /\ select' = setselected(select, select.selected + 1)
    /\ cb' = << select_value(select') >>
    /\ UNCHANGED <<number, gui_exc>>
    /\ UNCHANGED <<twistVars, buildVars, interfaceVars>>

\* Menu.event: the entry of value val was chosen
MenuEvent(val) ==
    /\ select # NoWidget
    /\ select.class = "Menu"
    /\ InChain(select.available_values, val)
    /\ select' = select_setvalue(select, val)
    /\ cb' = << select_value(select') >>
    /\ UNCHANGED <<number, gui_exc>>
    /\ UNCHANGED <<twistVars, buildVars, interfaceVars>>

WidgetsInit ==
    /\ number \in {Number(class, value, min, max) :
                        class \in NumberClasses, value \in Halves, min \in Limits, max \in Limits}
    /\ select \in {MultipleSelect(class, options, default) :
                        class \in SelectClasses, options \in OptionLists, default \in Defaults}
    /\ cb = << >>
    /\ gui_exc = "none"

InitWidgets == TwistInit /\ BuildIdle /\ InterfaceIdle /\ WidgetsInit

WidgetsNext ==
    \/ \E val \in Halves : NumberEvent(val)
    \/ \E type \in {"int", "float"} : \E val \in Halves : NumberAssign(type, val)
    \/ \E index \in 0..3 : RadioButtonsEvent(index)
    \/ MultipleToggleEvent
    \/ \E val \in 0..201 : MenuEvent(val)

\* a Number widget and a MultipleSelect widget, constructed with any
\* arguments, then assigned to and changed by the user
SpecWidgets == InitWidgets /\ [][WidgetsNext]_vars



(***************************************************************************)
(* Properties of the builders.                                             *)
(***************************************************************************)
Built == pc = "done"

\* every count of the call is at or above its minimum: 3 for segment, U, V,
\* major and minor counts, 1 for cap, wall, inner, outer and sub-divisions
CountsAtMinimum ==
    LET a == call.args
    IN  CASE call.name = "Cylinder" ->
                a.Segments >= 3 /\ a.Divisions >= 1 /\ a.CapDivisions >= 1
          [] call.name = "Disc" -> a.Segments >= 3 /\ a.Subdivisions >= 1
          [] call.name \in {"Sphere", "Sphere2"} ->
                a.UDivisions >= 3 /\ a.VDivisions >= 3
          [] call.name \in {"Torus", "Torus2"} ->
                a.MajorDivisions >= 3 /\ a.MinorDivisions >= 3
          [] call.name = "Tube" ->
                /\ a.Segments >= 3 /\ a.InnerDivisions >= 1
                /\ a.OuterDivisions >= 1 /\ a.CapDivisions >= 1
          [] OTHER -> FALSE

\* the ordered vertex pairs that are cyclically consecutive in a face
DirectedEdges(f) ==
    {<< f.v[c], f.v[(c % Len(f.v)) + 1] >> : c \in 1..Len(f.v)}

ConsistentlyWound(faces) ==
    \A k \in 1..Len(faces) : \A l \in (k + 1)..Len(faces) :
        DirectedEdges(faces[k]) \cap DirectedEdges(faces[l]) = {}

\* C1: in every mesh a builder produces from counts at or above their
\* minimum, no ordered vertex pair is an edge of two different faces: two
\* faces that share an edge traverse it in opposite directions.
C1_ConsistentWinding ==
    (Built /\ CountsAtMinimum) => ConsistentlyWound(poly.faces)


(***************************************************************************)
(* Properties of the twist session.                                        *)
(***************************************************************************)
\* a step in which a slider or the radio buttons called live_update
WidgetEvent ==
    \/ \E val \in PercentInputs : StartFromEvent(val)
    \/ \E val \in PercentInputs : EndAtEvent(val)
    \/ \E val \in AngleInputs : AngleEvent(val)
    \/ \E index \in 0..2 : AxisEvent(index)

\* a step that ran update() on the held mesh; the values update() read are
\* the widgets' values after the step
RanUpdate == Held /\ (Update \/ apply \/ (LiveUpdate /\ WidgetEvent))

\* the index of a coordinate axis in a position
AxisIndex(a) == IF a = AXIS_X THEN 1 ELSE IF a = AXIS_Y THEN 2 ELSE 3

\* the extent of the held mesh's bounding box along axis a, and its minimum
Extent(a) ==
    IF a = AXIS_X THEN bbox.max_x - bbox.min_x
    ELSE IF a = AXIS_Y THEN bbox.max_y - bbox.min_y
    ELSE bbox.max_z - bbox.min_z
AxisMin(a) ==
    IF a = AXIS_X THEN bbox.min_x ELSE IF a = AXIS_Y THEN bbox.min_y ELSE bbox.min_z

\* baseline vertex i has its axis fraction t in [lo/100, hi/100] (Extent(a) > 0)
FractionIn(i, a, lo, hi) ==
    InRange(vertex_list[i][AxisIndex(a)], AxisMin(a), Extent(a), lo, hi)

\* the position v turned about axis a by num/den degrees: the coordinate
\* along the axis is kept and the other two are turned in their plane
Turned(v, a, num, den) ==
    LET c == cos(num, den)
        s == sin(num, den)
        p == IF a = AXIS_X THEN 2 ELSE 1
        q == IF a = AXIS_Z THEN 2 ELSE 3
    IN  [k \in 1..3 |->
            IF k = p THEN Mul(v[p], c) - Mul(v[q], s)
            ELSE IF k = q THEN Mul(v[p], s) + Mul(v[q], c)
            ELSE v[k]]

\* C2: an update with Angle = 0 leaves every vertex of the held mesh at its
\* baseline position, for every axis and every Start/End pair.
C2_ZeroAngleIsIdentity ==
    [][(RanUpdate /\ Angle' = 0) => verts'[mesh] = vertex_list]_vars

\* C3: after an update, a vertex whose axis fraction t lies in [start, end]
\* is at its baseline position turned about the chosen axis by
\* angle*(t-start)/(end-start) (stated where that angle is defined: the
\* extent is not zero and start < end).
C3_RotatesInRange ==
    [][(RanUpdate /\ Extent(Axis') > 0 /\ StartFrom' # EndAt') =>
        LET lo == Min2(StartFrom', EndAt')
            hi == Max2(StartFrom', EndAt')
        IN  \A i \in 1..Len(vertex_list) :
                FractionIn(i, Axis', lo, hi) =>
                    verts'[mesh][i] =
                        Turned(vertex_list[i], Axis',
                               Angle' * (100 * (vertex_list[i][AxisIndex(Axis')] - AxisMin(Axis'))
                                         - lo * Extent(Axis')),
                               Extent(Axis') * (hi - lo))]_vars

\* C4: after every update the held mesh's positions are those of one update
\* with the same parameters applied to the mesh at its baseline: nothing of
\* the earlier updates is left.
C4_NoAccumulation ==
    [][RanUpdate =>
        verts'[mesh] = twist_mesh(vertex_list, vertex_list, axis[Axis'], Angle',
                                  StartFrom', EndAt').verts]_vars

\* C5: an update of a mesh whose bounding box has no extent along the chosen
\* axis raises no error and moves no vertex.
C5_ZeroExtentIsNoOp ==
    [][(RanUpdate /\ Extent(Axis') = 0) => (raised' = "none" /\ verts' = verts)]_vars

\* C7: after an update, every vertex whose axis fraction t lies outside
\* [start, end] is at its baseline position.
C7_OutsideRangeUntouched ==
    [][(RanUpdate /\ Extent(Axis') > 0) =>
        \A i \in 1..Len(vertex_list) :
            ~FractionIn(i, Axis', Min2(StartFrom', EndAt'), Max2(StartFrom', EndAt')) =>
                verts'[mesh][i] = vertex_list[i]]_vars

\* C8: while no mesh is held, update, live_update, apply and cancel move no
\* vertex of any mesh and raise no error.
C8_NoTargetIsNoOp ==
    [][(~Held /\ (Update \/ apply \/ cancel \/ WidgetEvent)) =>
        (verts' = verts /\ raised' = "none")]_vars

\* a mesh was applied and released, and afterwards cancel ran: the applied,
\* deformed mesh is as apply left it
C8_Witness ==
    /\ mesh = "None"
    /\ applied = 1
    /\ raised = "none"
    /\ verts # InitialVerts

(***************************************************************************)
(* Properties of the builders' parameters.                                 *)
(***************************************************************************)
\* a radius of the call is zero or less
RadiusNotPositive ==
    LET a == call.args
    IN  CASE call.name \in {"Cylinder", "Sphere", "Sphere2"} -> a.Radius <= 0
          [] call.name \in {"Torus", "Torus2"} ->
                a.MajorRadius <= 0 \/ a.MinorRadius <= 0
          [] call.name \in {"Disc", "Tube"} ->
                a.InnerRadius <= 0 \/ a.OuterRadius <= 0
          [] OTHER -> FALSE

\* C6: a builder called with a count below its minimum or a radius that is
\* not positive ends with an error, has emitted no vertex and no face, and
\* has handed no mesh to NMesh.PutRaw.
C6_InvalidParameterRejected ==
    (Built /\ (~CountsAtMinimum \/ RadiusNotPositive)) =>
        /\ exc # "none"
        /\ poly.verts = <<>>
        /\ poly.faces = <<>>
        /\ ~put

\* the call with the two ends of its angle range exchanged
Swapped(c) ==
    IF c.name = "Torus2"
    THEN [c EXCEPT !.args.StartMajorAngle = c.args.EndMajorAngle,
                   !.args.EndMajorAngle = c.args.StartMajorAngle]
    ELSE IF c.name = "Tube"
    THEN [c EXCEPT !.args.StartAngle = c.args.EndAngle,
                   !.args.EndAngle = c.args.StartAngle]
    ELSE c

\* the call takes an angle range
TakesRange ==
    call.name = "Torus2" \/ (call.name = "Tube" /\ call.args.UseAngles)

\* C9: an operation that takes a start/end range gives the same result with
\* the two values exchanged: Torus2 and Tube (with UseAngles) build the same
\* vertex list and face list, and the twist of the held mesh with Start and
\* End exchanged gives the same vertex positions.
C9_RangeIsOrdered ==
    /\ (Built /\ TakesRange) =>
            /\ poly.verts = Build(Swapped(call)).verts
            /\ poly.faces = Build(Swapped(call)).faces
    /\ Held =>
            twist_mesh(vertex_list, verts[mesh], axis[Axis], Angle, StartFrom, EndAt).verts
              = twist_mesh(vertex_list, verts[mesh], axis[Axis], Angle, EndAt, StartFrom).verts

\* Sphere2 built a mesh of at least one latitude ring from a positive radius
ClippedSphereBuilt ==
    /\ Built /\ call.name = "Sphere2" /\ exc = "none"
    /\ call.args.Radius > 0 /\ call.args.UDivisions >= 3 /\ call.args.VDivisions >= 3

\* the height of the rim ring, the first ring Sphere2 emits; the pole is at
\* +Radius, so a span of 0 degrees puts the rim at +Radius and a span of 180
\* degrees puts it at -Radius
RimZ == poly.verts[1][3]

\* C10 as stated: the span from the pole to the rim ring is 180 degrees for
\* Clip = 0 (the full sphere) and 0 degrees for Clip = 100 (nothing).
C10_ClipZeroKeepsAll ==
    ClippedSphereBuilt =>
        /\ call.args.Clip = 0 => RimZ = 0 - call.args.Radius
        /\ call.args.Clip = 100 => RimZ = call.args.Radius

\* C10 as the code has it: the span from the pole to the rim ring is
\* acos(1 - Clip/50), which is 0 degrees for Clip = 0 (every ring collapses
\* onto the pole: nothing is kept), 90 degrees for Clip = 50 (the upper
\* hemisphere) and 180 degrees for Clip = 100 (the full sphere).
C10_ClipHundredKeepsAll ==
    ClippedSphereBuilt =>
        /\ call.args.Clip = 0 =>
                \A i \in 1..Len(poly.verts) : poly.verts[i] = <<0, 0, call.args.Radius>>
        /\ call.args.Clip = 50 => RimZ = 0
        /\ call.args.Clip = 100 => poly.verts[1] = <<0, 0, 0 - call.args.Radius>>

\* Sphere2 built from Clip = 100: the rim ring lies on the south pole and the
\* pole vertex on the north pole
C10_Witness ==
    /\ ClippedSphereBuilt
    /\ call.args.Clip = 100
    /\ poly.verts[1] = <<0, 0, 0 - call.args.Radius>>
    /\ poly.verts[Len(poly.verts)] = <<0, 0, call.args.Radius>>

(***************************************************************************)
(* Properties of the builders' vertex and face lists.                      *)
(***************************************************************************)
\* the builder name was called with counts at or above their minimum and
\* returned its mesh
Returned(name) ==
    Built /\ call.name = name /\ CountsAtMinimum /\ exc = "none" /\ put

NVerts == Len(poly.verts)
NFaces == Len(poly.faces)

\* the positions in poly.faces of the faces of c corners
FacesOfSize(c) == {k \in 1..NFaces : Len(poly.faces[k].v) = c}

\* the positions in poly.faces of the faces that have vertex index a
FacesAt(a) == {k \in 1..NFaces : \E c \in 1..Len(poly.faces[k].v) : poly.faces[k].v[c] = a}

\* the vertex indices of a face, and its edges without direction
Corners(f) == {f.v[c] : c \in 1..Len(f.v)}
Edges(f) == {{ f.v[c], f.v[(c % Len(f.v)) + 1] } : c \in 1..Len(f.v)}

\* the number of faces of the mesh that have the edge e
EdgeUse(e) == Cardinality({k \in 1..NFaces : e \in Edges(poly.faces[k])})

\* the vertex indices of ring i (from 0) of rings of n vertices
RingIndices(i, n) == (n * i)..(n * i + n - 1)

\* C11: a capped Sphere2 of U >= 3, V >= 3 is a closed mesh with either cap
\* method: every edge of every face belongs to exactly two faces.
C11_CappedSphereIsClosed ==
    (Returned("Sphere2") /\ call.args.CapBottom) =>
        \A k \in 1..NFaces : \A e \in Edges(poly.faces[k]) : EdgeUse(e) = 2

\* a Sphere2 of U = 4, V = 3 capped with the simple fan: U-2 triangles about
\* rim vertex 0 and no added vertex
C11_Witness ==
    /\ Returned("Sphere2") /\ call.args.CapBottom /\ call.args.CapSymmetrical = 0
    /\ call.args.UDivisions = 4 /\ call.args.VDivisions = 3
    /\ NVerts = 4 * 2 + 1
    /\ NFaces = 4 + 4 + 2
    /\ Corners(poly.faces[NFaces]) = {0, 2, 3}

\* the quad that joins vertices j and (j+1) mod n of ring i to the same
\* vertices of ring i2, the rings having n vertices each
StitchQuad(i, i2, j, n) ==
    << n * i + j, n * i + ((j + 1) % n), n * i2 + ((j + 1) % n), n * i2 + j >>

\* some face of the mesh has exactly the corners cs, in this order
HasFace(cs) == \E k \in 1..NFaces : poly.faces[k].v = cs

\* the number of ring levels of the Cylinder call: 2*C + O
CylinderLevels == 2 * call.args.CapDivisions + call.args.Divisions

\* C12: Cylinder produces S*(2C+O) ring vertices and 2 apex vertices,
\* S*(2C+O-1) skin quads and 2*S cap triangles, and for every level i and
\* every j the quad that joins level i to level i+1 at j and (j+1) mod S.
C12_CylinderCounts ==
    Returned("Cylinder") =>
        LET S == call.args.Segments
        IN  /\ NVerts = S * CylinderLevels + 2
            /\ Cardinality(FacesOfSize(4)) = S * (CylinderLevels - 1)
            /\ Cardinality(FacesOfSize(3)) = 2 * S
            /\ NFaces = S * (CylinderLevels - 1) + 2 * S
            /\ \A i \in 0..(CylinderLevels - 2) : \A j \in 0..(S - 1) :
                    HasFace(StitchQuad(i, i + 1, j, S))

\* Cylinder of 4 segments, 1 wall division and 1 cap division: 14 vertices
\* and 16 faces
C12_Witness ==
    /\ Returned("Cylinder")
    /\ call.args.Segments = 4 /\ call.args.Divisions = 1 /\ call.args.CapDivisions = 1
    /\ NVerts = 14
    /\ NFaces = 16

\* the pairs of ring vertices that the triangles of the apex a span
FanPairs(a) == {Corners(poly.faces[k]) \ {a} : k \in FacesAt(a)}

\* the pairs {j, (j+1) mod n} of ring i, the rings having n vertices each
RingPairs(i, n) == {{n * i + j, n * i + ((j + 1) % n)} : j \in 0..(n - 1)}

\* ring i of the mesh is the circle of radius r at height z
RingIs(i, n, r, z) ==
    \A j \in 0..(n - 1) : poly.verts[n * i + j + 1] = MakeVertexRing(n, r, z)[j + 1]

\* the two fans of the Cylinder call: S triangles about the bottom apex
\* (0,0,0) on the first ring, S triangles about the top apex (0,0,Height) on
\* the last ring, both wrapping
CylinderFans ==
    LET S == call.args.Segments
    IN  /\ poly.verts[NVerts - 1] = <<0, 0, 0>>
        /\ poly.verts[NVerts] = <<0, 0, call.args.Height>>
        /\ FacesAt(NVerts - 2) \subseteq FacesOfSize(3)
        /\ FacesAt(NVerts - 1) \subseteq FacesOfSize(3)
        /\ Cardinality(FacesAt(NVerts - 2)) = S
        /\ Cardinality(FacesAt(NVerts - 1)) = S
        /\ FanPairs(NVerts - 2) = RingPairs(0, S)
        /\ FanPairs(NVerts - 1) = RingPairs(CylinderLevels - 1, S)

\* C13 with the top fan on the outer ring: the bottom fan is on the innermost bottom-cap
\* ring (radius Radius/C, z = 0) and the top fan is on the outermost top-cap
\* ring, the ring of radius Radius at z = Height.
C13_TopFanOnOuterRing ==
    Returned("Cylinder") =>
        LET a == call.args
        IN  /\ CylinderFans
            /\ RingIs(0, a.Segments, a.Radius \div a.CapDivisions, 0)
            /\ RingIs(CylinderLevels - 1, a.Segments, a.Radius, a.Height)

\* C13 with the top fan on the inner ring: the bottom fan is on the innermost bottom-cap ring (radius
\* Radius/C, z = 0) and the top fan is on the innermost top-cap ring, the
\* last ring emitted (radius Radius/C, z = Height); it is the ring of
\* radius Radius only when C = 1.
C13_TopFanOnInnerRing ==
    Returned("Cylinder") =>
        LET a == call.args
        IN  /\ CylinderFans
            /\ RingIs(0, a.Segments, a.Radius \div a.CapDivisions, 0)
            /\ RingIs(CylinderLevels - 1, a.Segments,
                      a.Radius - (a.Radius \div a.CapDivisions) * (a.CapDivisions - 1),
                      a.Height)
            /\ a.CapDivisions = 1 => RingIs(CylinderLevels - 1, a.Segments, a.Radius, a.Height)

\* Cylinder of radius 2 with 2 cap divisions: the top fan is on the ring of
\* radius 1, not on the ring of radius 2
C13_Witness ==
    /\ Returned("Cylinder")
    /\ call.args.CapDivisions = 2 /\ call.args.Radius = 2 * Scale /\ call.args.Segments = 4
    /\ FanPairs(NVerts - 1) = RingPairs(CylinderLevels - 1, 4)
    /\ poly.verts[4 * (CylinderLevels - 1) + 1] = <<Scale, 0, call.args.Height>>

\* the height of ring i of rings of n vertices
RingZ(i, n) == poly.verts[n * i + 1][3]

\* C14: Sphere produces V-1 rings of U vertices, then the north pole, then
\* the south pole; U*(V-2) skin quads and 2*U pole triangles; the U triangles
\* of a pole have that pole and two neighbouring vertices of the ring nearest
\* to it: the first ring for the north pole, the last ring for the south pole.
C14_SphereCounts ==
    Returned("Sphere") =>
        LET U == call.args.UDivisions
            V == call.args.VDivisions
        IN  /\ NVerts = U * (V - 1) + 2
            /\ poly.verts[NVerts - 1] = <<0, 0, call.args.Radius>>
            /\ poly.verts[NVerts] = <<0, 0, 0 - call.args.Radius>>
            /\ Cardinality(FacesOfSize(4)) = U * (V - 2)
            /\ Cardinality(FacesOfSize(3)) = 2 * U
            /\ NFaces = U * (V - 2) + 2 * U
            /\ \A i \in 0..(V - 3) : \A j \in 0..(U - 1) : HasFace(StitchQuad(i, i + 1, j, U))
            /\ FacesAt(NVerts - 2) \cup FacesAt(NVerts - 1) = FacesOfSize(3)
            /\ Cardinality(FacesAt(NVerts - 2)) = U
            /\ Cardinality(FacesAt(NVerts - 1)) = U
            /\ FanPairs(NVerts - 2) = RingPairs(0, U)
            /\ FanPairs(NVerts - 1) = RingPairs(V - 2, U)
            /\ \A i \in 0..(V - 2) : RingZ(V - 2, U) <= RingZ(i, U) /\ RingZ(i, U) <= RingZ(0, U)

\* Sphere of radius 1, U = 3, V = 4: 11 vertices, 6 quads and 6 triangles,
\* the first ring above the equator and the last ring below it
C14_Witness ==
    /\ Returned("Sphere")
    /\ call.args.UDivisions = 3 /\ call.args.VDivisions = 4 /\ call.args.Radius = Scale
    /\ NVerts = 11
    /\ NFaces = 12
    /\ RingZ(0, 3) > 0 /\ RingZ(2, 3) < 0
    /\ FanPairs(NVerts - 1) = RingPairs(2, 3)

\* C15: Disc produces S*(D+1) vertices, in D+1 concentric rings of S at
\* z = 0 from the inner to the outer radius, and S*D faces, all of them quads,
\* one for every ring i < D and every j, joining ring i to ring i+1 at j and
\* (j+1) mod S; every vertex is a ring vertex.
C15_DiscCounts ==
    Returned("Disc") =>
        LET S == call.args.Segments
            D == call.args.Subdivisions
            dr == (call.args.OuterRadius - call.args.InnerRadius) \div D
        IN  /\ NVerts = S * (D + 1)
            /\ NFaces = S * D
            /\ FacesOfSize(4) = 1..NFaces
            /\ \A i \in 0..(D - 1) : \A j \in 0..(S - 1) : HasFace(StitchQuad(i, i + 1, j, S))
            /\ \A i \in 0..D : RingIs(i, S, call.args.InnerRadius + dr * i, 0)

\* Disc of inner radius 1, outer radius 2, 4 segments and 1 subdivision: 8
\* vertices and 4 faces
C15_Witness ==
    /\ Returned("Disc")
    /\ call.args.Segments = 4 /\ call.args.Subdivisions = 1
    /\ call.args.InnerRadius = Scale /\ call.args.OuterRadius = 2 * Scale
    /\ NVerts = 8
    /\ NFaces = 4
    /\ poly.verts[5] = <<2 * Scale, 0, 0>>

\* C16: the full Torus produces MajorDivisions rings of MinorDivisions
\* vertices and MajorDivisions*MinorDivisions faces, all quads: for every
\* ring i and every j the quad joining vertices j and (j+1) mod MinorDivisions
\* of ring i and of ring (i+1) mod MajorDivisions; every vertex belongs to
\* exactly four quads.
C16_TorusCounts ==
    Returned("Torus") =>
        LET Ma == call.args.MajorDivisions
            Mi == call.args.MinorDivisions
        IN  /\ NVerts = Ma * Mi
            /\ NFaces = Ma * Mi
            /\ FacesOfSize(4) = 1..NFaces
            /\ \A i \in 0..(Ma - 1) : \A j \in 0..(Mi - 1) :
                    HasFace(StitchQuad(i, (i + 1) % Ma, j, Mi))
            /\ \A a \in 0..(NVerts - 1) : Cardinality(FacesAt(a)) = 4

\* Torus of 3 major and 4 minor divisions: 12 vertices and 12 quads, the
\* last of them stitching the last ring back to ring 0
C16_Witness ==
    /\ Returned("Torus")
    /\ call.args.MajorDivisions = 3 /\ call.args.MinorDivisions = 4
    /\ NVerts = 12
    /\ NFaces = 12
    /\ poly.faces[12].v = << 11, 8, 0, 3 >>

\* the positions of the triangles whose corners all lie in ring i
TrianglesIn(i, n) ==
    {k \in FacesOfSize(3) : Corners(poly.faces[k]) \subseteq RingIndices(i, n)}

\* C17: Torus2 produces MajorDivisions+1 rings and MajorDivisions strips of
\* quads, ring i to ring i+1, no quad joining the last ring to the first;
\* cap-start adds MinorDivisions-1 triangles of first-ring vertices that all
\* have vertex 0, cap-end adds MinorDivisions-1 triangles of last-ring
\* vertices that all have the last vertex; each flag adds its own triangles
\* only, and neither adds a vertex.
C17_CutTorusCounts ==
    Returned("Torus2") =>
        LET Ma == call.args.MajorDivisions
            Mi == call.args.MinorDivisions
        IN  /\ NVerts = (Ma + 1) * Mi
            /\ Cardinality(FacesOfSize(4)) = Ma * Mi
            /\ \A i \in 0..(Ma - 1) : \A j \in 0..(Mi - 1) : HasFace(StitchQuad(i, i + 1, j, Mi))
            /\ \A k \in FacesOfSize(4) :
                    ~ (/\ Corners(poly.faces[k]) \cap RingIndices(0, Mi) # {}
                       /\ Corners(poly.faces[k]) \cap RingIndices(Ma, Mi) # {})
            /\ FacesOfSize(3) = TrianglesIn(0, Mi) \cup TrianglesIn(Ma, Mi)
            /\ FacesOfSize(3) \cup FacesOfSize(4) = 1..NFaces
            /\ Cardinality(TrianglesIn(0, Mi)) = IF call.args.CapStart THEN Mi - 1 ELSE 0
            /\ Cardinality(TrianglesIn(Ma, Mi)) = IF call.args.CapEnd THEN Mi - 1 ELSE 0
            /\ TrianglesIn(0, Mi) \subseteq FacesAt(0)
            /\ TrianglesIn(Ma, Mi) \subseteq FacesAt(NVerts - 1)

\* Torus2 of 3 major and 4 minor divisions with the start cap only: 16
\* vertices, 12 quads and 3 triangles on the first ring
C17_Witness ==
    /\ Returned("Torus2")
    /\ call.args.MajorDivisions = 3 /\ call.args.MinorDivisions = 4
    /\ call.args.CapStart /\ ~call.args.CapEnd
    /\ NVerts = 16
    /\ NFaces = 15
    /\ Cardinality(TrianglesIn(0, 4)) = 3
    /\ TrianglesIn(3, 4) = {}

\* the full torus of the same radii, divisions, minor angle and smoothness as
\* the Torus2 call
SameTorus ==
    LET a == call.args
    IN  Torus(a.MajorRadius, a.MinorRadius, a.MajorDivisions, a.MinorDivisions,
              a.StartMinorAngle, a.Smooth)

\* a vertex index of the cut torus with the ring after the last taken as ring 0
OntoSeam(v) ==
    IF v >= call.args.MajorDivisions * call.args.MinorDivisions
    THEN v - call.args.MajorDivisions * call.args.MinorDivisions
    ELSE v

\* the Torus2 call runs from 0 to 360 degrees without caps
FullTurnNoCaps ==
    /\ Returned("Torus2")
    /\ call.args.StartMajorAngle = 0 /\ call.args.EndMajorAngle = 360
    /\ ~call.args.CapStart /\ ~call.args.CapEnd

\* C18: Torus2 from 0 to 360 degrees without caps has as many faces as Torus
\* with the same divisions, and its face list with ring MajorDivisions
\* mapped onto ring 0, vertex j to vertex j, is the face list of Torus.
C18_CutTorusFullTurn ==
    FullTurnNoCaps =>
        /\ SameTorus.exc = "none"
        /\ NFaces = Len(SameTorus.faces)
        /\ \A k \in 1..NFaces :
                [c \in 1..Len(poly.faces[k].v) |-> OntoSeam(poly.faces[k].v[c])]
                    = SameTorus.faces[k].v

\* Torus2 of 3 major and 3 minor divisions from 0 to 360 degrees: its last
\* quad has vertices of ring 3, which Torus has as vertices of ring 0
C18_Witness ==
    /\ FullTurnNoCaps
    /\ call.args.MajorDivisions = 3 /\ call.args.MinorDivisions = 3
    /\ poly.faces[9].v = << 8, 6, 9, 11 >>
    /\ SameTorus.faces[9].v = << 8, 6, 0, 2 >>

\* vps of the Tube call
CallVps == 2 * call.args.CapDivisions + call.args.InnerDivisions + call.args.OuterDivisions

\* C19: Tube builds sections of vps = 2*CapDivisions + InnerDivisions +
\* OuterDivisions vertices.  Without UseAngles: S sections, S*vps quads,
\* section i stitched to section (i+1) mod S.  With UseAngles: S+1 sections
\* and two centre vertices, S*vps quads that stitch section i to section
\* i+1 only, and 2*vps triangles: the first centre with every edge of the
\* first section, the second centre with every edge of the last section.
C19_TubeCounts ==
    Returned("Tube") =>
        LET S == call.args.Segments
            vps == CallVps
        IN  IF ~call.args.UseAngles
            THEN /\ NVerts = S * vps
                 /\ NFaces = S * vps
                 /\ FacesOfSize(4) = 1..NFaces
                 /\ \A i \in 0..(S - 1) : \A j \in 0..(vps - 1) :
                        HasFace(StitchQuad(i, (i + 1) % S, j, vps))
            ELSE /\ NVerts = (S + 1) * vps + 2
                 /\ Cardinality(FacesOfSize(4)) = S * vps
                 /\ \A i \in 0..(S - 1) : \A j \in 0..(vps - 1) :
                        HasFace(StitchQuad(i, i + 1, j, vps))
                 /\ \A k \in FacesOfSize(4) :
                        ~ (/\ Corners(poly.faces[k]) \cap RingIndices(0, vps) # {}
                           /\ Corners(poly.faces[k]) \cap RingIndices(S, vps) # {})
                 /\ Cardinality(FacesOfSize(3)) = 2 * vps
                 /\ NFaces = S * vps + 2 * vps
                 /\ FacesAt(NVerts - 2) \cup FacesAt(NVerts - 1) = FacesOfSize(3)
                 /\ Cardinality(FacesAt(NVerts - 2)) = vps
                 /\ Cardinality(FacesAt(NVerts - 1)) = vps
                 /\ FanPairs(NVerts - 2) = RingPairs(0, vps)
                 /\ FanPairs(NVerts - 1) = RingPairs(S, vps)

\* Tube of 3 segments and sections of 4 vertices with UseAngles: 18
\* vertices, 12 quads and 8 triangles
C19_Witness ==
    /\ Returned("Tube") /\ call.args.UseAngles
    /\ call.args.Segments = 3 /\ CallVps = 4
    /\ NVerts = 18
    /\ NFaces = 20
    /\ FanPairs(17) = RingPairs(3, 4)

\* the cross-section point at phase num/den degrees, turned about z to the
\* major angle a (whole degrees)
SectionPoint(num, den, a) ==
    RotateZvert(<< call.args.MajorRadius + Mul(call.args.MinorRadius, cos(num, den)),
                   0,
                   Mul(call.args.MinorRadius, sin(num, den)) >>, a, 1)

\* the major angle of the first ring of the call
FirstMajorAngle ==
    IF call.name = "Torus" THEN 0
    ELSE Min2(call.args.StartMajorAngle, call.args.EndMajorAngle)

\* C20: in Torus and Torus2, vertex i of the cross-section lies at phase
\* 360*i/MinorDivisions + StartMinorAngle degrees: StartMinorAngle = 180
\* shifts the section by half a turn, StartMinorAngle = 360 gives the
\* vertices of StartMinorAngle = 0.
C20_MinorAngleIsPhase ==
    (Returned("Torus") \/ Returned("Torus2")) =>
        LET Mi == call.args.MinorDivisions
        IN  \A i \in 0..(Mi - 1) :
                poly.verts[i + 1] =
                    SectionPoint(360 * i + call.args.StartMinorAngle * Mi, Mi, FirstMajorAngle)

(***************************************************************************)
(* Properties of the twist session's callbacks.                            *)
(***************************************************************************)
\* the result of twist_mesh for the widgets' values after the step
Recomputed ==
    twist_mesh(vertex_list, verts[mesh], axis[Axis'], Angle', StartFrom', EndAt')

\* C21: a change of Start, End, Axis or Angle recomputes the deformation of
\* the held mesh when LiveUpdate is set and a mesh is held, and otherwise
\* moves no vertex of any mesh and raises nothing; so with LiveUpdate off
\* the vertices stay as they are until Update or Apply.
C21_LiveUpdateGates ==
    [][WidgetEvent =>
        IF LiveUpdate /\ Held
        THEN verts' = [verts EXCEPT ![mesh] = Recomputed.verts] /\ raised' = Recomputed.err
        ELSE verts' = verts /\ raised' = "none"]_vars

\* a mesh is held at its baseline, LiveUpdate is off and the Angle and Start
\* sliders have been moved
C21_Witness ==
    /\ Held /\ ~LiveUpdate /\ raised = "none"
    /\ Angle = 90 /\ StartFrom = 50
    /\ applied = 0 /\ verts = InitialVerts

\* C27: an update with Start = End raises no error, for every axis and
\* angle, and leaves every vertex whose axis fraction differs from Start at
\* its baseline position (stated where the extent is not zero).
C27_EmptyRangeCompletes ==
    [][(RanUpdate /\ StartFrom' = EndAt' /\ Extent(Axis') > 0) =>
        /\ raised' = "none"
        /\ \A i \in 1..Len(vertex_list) :
                ~FractionIn(i, Axis', StartFrom', StartFrom') =>
                    verts'[mesh][i] = vertex_list[i]]_vars

\* get_selected has stored a bounding box: min_x is a number, no longer None
BoxCaptured == ToString(bbox.min_x) = ToString(Scale)

\* C28: cancel writes the baseline back to every vertex of the held mesh
\* and releases it (no mesh held, baseline list empty), and the baseline is
\* the positions the mesh had when get_selected acquired it: it is captured
\* from the mesh at acquisition and no update changes it.
C28_CancelRestores ==
    [][/\ (Held /\ cancel) =>
            (verts' = [verts EXCEPT ![mesh] = vertex_list] /\ mesh' = "None" /\ vertex_list' = <<>>)
       /\ (~Held /\ Held') => (vertex_list' = verts[mesh'] /\ verts' = verts)
       /\ (Held /\ RanUpdate /\ Held') => vertex_list' = vertex_list]_vars

\* a mesh was acquired, deformed by an update and then cancelled: no mesh
\* is held, the sliders still stand at the deforming values and every
\* vertex is where it was
C28_Witness ==
    /\ mesh = "None" /\ vertex_list = <<>> /\ raised = "none"
    /\ BoxCaptured /\ Angle = 90 /\ LiveUpdate
    /\ applied = 0 /\ verts = InitialVerts

\* C29: while a mesh is held, the baseline vertex list and the bounding box
\* do not change, whatever the callback; a get_selected with a mesh held
\* changes nothing at all; and a step that stores a new baseline is a
\* get_selected taken with no mesh held, i.e. after cancel or apply.
C29_BaselineIsFrozen ==
    [][/\ (Held /\ Held') => UNCHANGED <<vertex_list, bbox, mesh>>
       /\ (Held /\ \E sel \in Selections : get_selected(sel)) => UNCHANGED vars
       /\ ~(~Held /\ \E sel \in Selections : get_selected(sel)) =>
            (bbox' = bbox /\ (vertex_list' = vertex_list \/ vertex_list' = <<>>))]_vars

\* the held mesh is deformed: a get_selected now would capture the deformed
\* positions if it captured anything
C29_Witness ==
    /\ Held /\ raised = "none"
    /\ verts[mesh] # vertex_list

(***************************************************************************)
(* Properties of the faces and of the ring levels.                         *)
(***************************************************************************)
\* a builder returned normally from a call whose counts are at their minimum
\* or above
ReturnedAny == Built /\ CountsAtMinimum /\ exc = "none" /\ put

\* face k has 3 or 4 corners, all of them vertices of the mesh, no two of
\* them the same vertex
ProperFace(k) ==
    LET f == poly.faces[k]
    IN  /\ Len(f.v) \in {3, 4}
        /\ Corners(f) \subseteq 0..(NVerts - 1)
        /\ Cardinality(Corners(f)) = Len(f.v)

\* C26: every face of every mesh a builder returns is a triangle or a quad
\* whose corners are pairwise distinct vertices of the mesh.
C26_FacesAreProper ==
    ReturnedAny => \A k \in 1..NFaces : ProperFace(k)

\* the radius and the elevation of ring i of a mesh whose rings have n
\* vertices: the ring's first vertex is (r, 0, z)
RingLevel(i, n) == << poly.verts[n * i + 1][1], poly.verts[n * i + 1][3] >>

\* C30: in a Cylinder of positive radius the 2C+O ring levels are pairwise
\* distinct in (radius, elevation).
C30_LevelsAreDistinct ==
    (Returned("Cylinder") /\ call.args.Radius > 0) =>
        \A i \in 0..(CylinderLevels - 1) : \A j \in (i + 1)..(CylinderLevels - 1) :
            RingLevel(i, call.args.Segments) # RingLevel(j, call.args.Segments)

(***************************************************************************)
(* Properties of the toolkit.                                              *)
(***************************************************************************)
\* C22: a call bind(function, events) leaves the function at the front of
\* the chain of each of the events, so the function bound last is the one
\* called first.
C22_BindPutsFirst ==
    [][\A function \in Handlers : \A events \in BindEvents :
            Bind(function, events) =>
                \A k \in 1..Len(events) : Head(events_lookup'[events[k]]) = function]_vars

\* the handlers of a chain in chain order, up to and including the first
\* that returns a value other than None
RECURSIVE ChainCalls(_, _)
ChainCalls(chain, pressed) ==
    IF chain = << >> THEN << >>
    ELSE IF Returns(Head(chain), pressed) # "None" THEN << Head(chain) >>
    ELSE << Head(chain) >> \o ChainCalls(Tail(chain), pressed)

\* C23: when an event occurs the handlers of its chain are called in chain
\* order, each once, up to and including the first that returns a value
\* other than None, also when one of them binds or unbinds while it runs.
C23_ChainOrder ==
    [][\A event \in KeyEvents \cup {"QKEY"} : \A pressed \in BOOLEAN :
            (events_process(event, pressed) /\ event \in DOMAIN events_lookup) =>
                called' = ChainCalls(events_lookup[event], pressed)]_vars

\* C24: the value of a Number widget lies in [min, max] in every state,
\* from its construction on.
C24_ValueInRange ==
    number # NoWidget => (number.min <= number.value /\ number.value <= number.max)

\* a step in which the user changed the selection of the MultipleSelect
SelectEvent ==
    \/ \E index \in 0..3 : RadioButtonsEvent(index)
    \/ MultipleToggleEvent
    \/ \E val \in 0..201 : MenuEvent(val)

\* C25: when the user changes the selection of a MultipleSelect widget,
\* the callback is called with the widget's value after the event.
C25_CallbackGetsValue ==
    [][SelectEvent => cb' = << select_value(select') >>]_vars

=============================================================================
